---------------------------- MODULE Spec2Model ----------------------------
(***************************************************************************)
(* cloudant_exporter: the supervision core of cmd/cloudant_exporter/main.go *)
(*                                                                         *)
(* main starts one monitorLooper goroutine per monitor, starts the metrics *)
(* HTTP server in a goroutine of its own, and blocks on the unbuffered     *)
(* channel monitorFailed.  A looper sleeps a random number of seconds,     *)
(* polls once, then polls on every tick of a time.Ticker; after every      *)
(* periodic poll it asks its FailBox whether to give up.  When Go()        *)
(* returns, the goroutine sends the monitor's name on monitorFailed; main  *)
(* logs the first name it receives and returns, which ends the process.    *)
(*                                                                         *)
(* Time is a wall clock counted in whole seconds.  Local computation takes *)
(* no time; time passes only while every looper is blocked (in time.Sleep, *)
(* in Retrieve, or on ticker.C), and then it jumps to the next instant at  *)
(* which a sleep ends, a retrieval returns or a ticker fires.              *)
(***************************************************************************)
EXTENDS Integers, FiniteSets, Sequences, TLC

(* ------------------------------ bounds --------------------------------- *)

\* longest time one Retrieve call may take, in seconds
MaxRetrieve == 2

\* seconds the clock may run past the point at which every looper has had
\* its first periodic poll and a looper that never succeeds has exited
ExtraTime == 1

(* ------------------------- program constants --------------------------- *)

Second == 1
Minute == 60 * Second

\* const failAfter = 5 * time.Minute
failAfter == 5 * Minute

\* rand.Intn(15)
JitterN == 15

\* int(time.Second): a time.Duration counts nanoseconds.  Durations are kept
\* here in units of 512 ns, which divides both 10^9 and 2^32 exactly, so
\* that the products stay within the model checker's integers
SecondUnits == 1953125

\* capacity of the channel of a time.Ticker
TickerBuffer == 1

\* widths the Go type int can have, by build target
IntWidths == {32, 64}

NoTime == -1
NoName == "none"

\* the monitors main starts, by the name their goroutine publishes
MainMonitors ==
    {"ReplicationProgressMonitor", "ReplicationStatusMonitor",
     "ThroughputMonitor", "ActiveTasksMonitor"}

\* monitorLooper.Interval as main sets it
MainInterval(m) ==
    IF m = "ReplicationStatusMonitor" THEN 10 * Minute ELSE 5 * Second

(* ------------------------------ FailBox -------------------------------- *)
(* internal/utils.FailBox: the failure window of one monitor.              *)

NewFailBox(threshold, t) ==
    [created |-> t, lastSuccess |-> NoTime, failAfter |-> threshold]

FailBoxSuccess(f, t) == [f EXCEPT !.lastSuccess = t]

FailBoxFailure(f, t) == f

LastSuccess(f) == f.lastSuccess

\* the instant the exit clock runs from
ClockStart(f) == IF f.lastSuccess = NoTime THEN f.created ELSE f.lastSuccess

ShouldExit(f, t) == t - ClockStart(f) > f.failAfter

(* ------------------------------- state --------------------------------- *)

VARIABLES
    now,          \* wall clock, seconds since main built the loopers
    pc,           \* per looper: where its goroutine is
    due,          \* per looper: when its time.Sleep or Retrieve returns
    err,          \* per looper: did the last Retrieve return an error
    nextTick,     \* per looper: when its ticker fires next (NoTime: no ticker)
    tickPending,  \* per looper: number of ticks buffered in ticker.C
    fb,           \* per looper: rc.FailBox
    Interval,     \* per looper: rc.Interval
    env,          \* per looper: what the remote service does to Retrieve
    received,     \* m, the name main received from monitorFailed
    proc,         \* "running", "returned" (main returned), "fatal" (log.Fatal)
    intBits,      \* the width of int in this build
    offset,       \* per looper: the local offset of Go(), NoTime once unused
    nFail,        \* history: failed retrievals of the looper, counted to 2
    lastOk,       \* history: when the looper's last error-free Retrieve returned
    rescued,      \* history: a success came when ShouldExit was already true
    inflight      \* history: Retrieve calls started and not yet returned

vars == <<now, pc, due, err, nextTick, tickPending, fb, Interval, env,
          received, proc, intBits, offset, nFail, lastOk, rescued, inflight>>

Loops == DOMAIN pc

\* pc values:
\*   "start"    goroutine started, Go() not yet run
\*   "sleep"    in time.Sleep (Starting)
\*   "startup"  startup Retrieve outstanding
\*   "wait"     blocked on ticker.C            (Polling)
\*   "retrieve" periodic Retrieve outstanding  (Polling)
\*   "send"     Go() returned, blocked in monitorFailed <- name (Exited)
\*   "sent"     the send was received                            (Exited)
Polling == {"wait", "retrieve"}
Exited == {"send", "sent"}

Min(S) == CHOOSE x \in S : \A y \in S : x <= y

Max(S) == CHOOSE x \in S : \A y \in S : x >= y

(* --------------------------- the environment --------------------------- *)

\* errors Retrieve may return: "ok" never fails, "fail" always fails
Outcomes(e) ==
    CASE e = "ok" -> {FALSE}
      [] e = "fail" -> {TRUE}
      [] OTHER -> {FALSE, TRUE}

\* the clock stops here
Horizon ==
    Max({JitterN * Second + Max({fb[s].failAfter, Interval[s]})
           + 2 * MaxRetrieve + ExtraTime : s \in Loops})

(* ------------------------- monitorLooper.Go ---------------------------- *)

\* offset := rand.Intn(15)
Offsets == 0 .. (JitterN - 1)

\* an int product as a build with ints of the given width keeps it, in
\* units of 512 ns: 2^32 ns are 2^23 units; no product of Go() reaches 2^63
WrapInt(n, bits) ==
    IF bits = 64 THEN n
    ELSE LET m == 2 ^ 23
             r == n % m
         IN  IF r >= m \div 2 THEN r - m ELSE r

\* a delay of 1 .. 15 seconds instead of 0 .. 14
SleepDurationFromOne(o, bits) == WrapInt((o + 1) * SecondUnits, bits)

\* time.Duration(offset * int(time.Second)), in units of 512 ns
SleepDuration(o, bits) == WrapInt(o * SecondUnits, bits)

\* whole seconds after which time.Sleep(d) returns: at once when d <= 0;
\* a fraction of a second ends within the second it falls in
WakeAfter(d) ==
    IF d <= 0 THEN {0}
    ELSE {d \div SecondUnits, (d + SecondUnits - 1) \div SecondUnits}

\* a looper that calls Success() on both branches
RecordAlways(f, e, t) == FailBoxSuccess(f, t)

\* a looper with the two branches the wrong way round
RecordSwapped(f, e, t) ==
    IF e THEN FailBoxSuccess(f, t) ELSE FailBoxFailure(f, t)

\* if err != nil { FailBox.Failure() } else { FailBox.Success() }
Record(f, e, t) == IF e THEN FailBoxFailure(f, t) ELSE FailBoxSuccess(f, t)

\* where the looper goes after the startup poll: straight to the ticker
AfterStartup(f, t) == "wait"

\* a looper that never asks ShouldExit
AfterTickIgnored(f, t) == "wait"

\* a looper that counts the threshold from the creation of the window
AfterTickSinceCreated(f, t) ==
    IF t - f.created > f.failAfter THEN "send" ELSE "wait"

\* where the looper goes after a periodic poll
AfterTick(f, t) == IF ShouldExit(f, t) THEN "send" ELSE "wait"

\* a looper that starts a poll on every tick, in a goroutine of its own
CanTakeTickAsync(s) == pc[s] \in Polling /\ tickPending[s] > 0

\* the for range ticker.C loop takes a tick only between two polls
CanTakeTick(s) == pc[s] = "wait" /\ tickPending[s] > 0

\* a ticker that queues every tick for a slow receiver
BufferedQueue(n) == n + 1

\* ticks in ticker.C after the ticker fires with n buffered: the send does
\* not block, a tick that finds the channel full is dropped
Buffered(n) == IF n < TickerBuffer THEN n + 1 ELSE n

\* goroutines that publish the name of another monitor
SentNameWrong(s) == CHOOSE n \in {"A", "B", "ReplicationProgressMonitor",
                                  "ReplicationStatusMonitor"} : n # s

\* the name the goroutine of looper s publishes
SentName(s) == s

Count(n) == IF n < 2 THEN n + 1 ELSE 2

\* Go() begins: draw the offset and go to sleep
GoStart(s) ==
    /\ proc = "running"
    /\ pc[s] = "start"
    /\ \E o \in Offsets :
          /\ offset' = [offset EXCEPT ![s] = o]
          /\ \E w \in WakeAfter(SleepDuration(o, intBits)) :
                due' = [due EXCEPT ![s] = now + w * Second]
    /\ pc' = [pc EXCEPT ![s] = "sleep"]
    /\ UNCHANGED <<now, err, nextTick, tickPending, fb, Interval, env,
                   received, proc, intBits, nFail, lastOk, rescued, inflight>>

\* the sleep is over: log the startup tick and call Retrieve
StartupTick(s) ==
    /\ proc = "running"
    /\ pc[s] = "sleep"
    /\ due[s] <= now
    /\ \E d \in 0 .. MaxRetrieve : due' = [due EXCEPT ![s] = now + d]
    /\ pc' = [pc EXCEPT ![s] = "startup"]
    /\ inflight' = [inflight EXCEPT ![s] = @ + 1]
    /\ offset' = [offset EXCEPT ![s] = NoTime]
    /\ UNCHANGED <<now, err, nextTick, tickPending, fb, Interval, env,
                   received, proc, intBits, nFail, lastOk, rescued>>

\* what a returning Retrieve leaves in the history variables
Noted(s, e) ==
    /\ err' = [err EXCEPT ![s] = e]
    /\ nFail' = [nFail EXCEPT ![s] = IF e THEN Count(@) ELSE @]
    /\ lastOk' = [lastOk EXCEPT ![s] = IF e THEN @ ELSE now]
    /\ rescued' = [rescued EXCEPT
                     ![s] = @ \/ (~e /\ ShouldExit(fb[s], now))]
    /\ inflight' = [inflight EXCEPT ![s] = @ - 1]

\* loopers that were all given one and the same FailBox
RecordedShared(s, e) == [t \in Loops |-> Record(fb[t], e, now)]

\* the FailBoxes after looper s has recorded the outcome e in rc.FailBox,
\* which main creates anew for each looper
Recorded(s, e) == [fb EXCEPT ![s] = Record(@, e, now)]

\* the startup Retrieve returns: record it and create the ticker
StartupReturn(s) ==
    /\ proc = "running"
    /\ pc[s] = "startup"
    /\ due[s] <= now
    /\ \E e \in Outcomes(env[s]) :
          /\ fb' = Recorded(s, e)
          /\ pc' = [pc EXCEPT ![s] = AfterStartup(Record(fb[s], e, now), now)]
          /\ Noted(s, e)
    /\ nextTick' = [nextTick EXCEPT ![s] = now + Interval[s]]
    /\ UNCHANGED <<now, due, tickPending, Interval, env, received, proc,
                   intBits, offset>>

\* a tick is taken from ticker.C: log it and call Retrieve
Tick(s) ==
    /\ proc = "running"
    /\ CanTakeTick(s)
    /\ tickPending' = [tickPending EXCEPT ![s] = @ - 1]
    /\ \E d \in 0 .. MaxRetrieve : due' = [due EXCEPT ![s] = now + d]
    /\ pc' = [pc EXCEPT ![s] = "retrieve"]
    /\ inflight' = [inflight EXCEPT ![s] = @ + 1]
    /\ UNCHANGED <<now, err, nextTick, fb, Interval, env, received, proc,
                   intBits, offset, nFail, lastOk, rescued>>

\* a periodic Retrieve returns: record it, then ask ShouldExit
TickReturn(s) ==
    /\ proc = "running"
    /\ pc[s] = "retrieve"
    /\ due[s] <= now
    /\ \E e \in Outcomes(env[s]) :
          /\ fb' = Recorded(s, e)
          /\ pc' = [pc EXCEPT ![s] = AfterTick(Record(fb[s], e, now), now)]
          /\ Noted(s, e)
    /\ UNCHANGED <<now, due, nextTick, tickPending, Interval, env,
                   received, proc, intBits, offset>>

(* -------------------------------- main --------------------------------- *)

\* a main that keeps receiving: for m := range monitorFailed
MainRecvRange ==
    /\ proc = "running"
    /\ \E s \in Loops :
          /\ pc[s] = "send"
          /\ received' = SentName(s)
          /\ pc' = [pc EXCEPT ![s] = "sent"]
    /\ UNCHANGED <<now, due, err, nextTick, tickPending, fb, Interval, env,
                   proc, intBits, offset, nFail, lastOk, rescued, inflight>>

\* m := <-monitorFailed; log.Printf(...); main returns
MainRecv ==
    /\ proc = "running"
    /\ \E s \in Loops :
          /\ pc[s] = "send"
          /\ received' = SentName(s)
          /\ pc' = [pc EXCEPT ![s] = "sent"]
    /\ proc' = "returned"
    /\ UNCHANGED <<now, due, err, nextTick, tickPending, fb, Interval, env,
                   intBits, offset, nFail, lastOk, rescued, inflight>>

\* a server goroutine that reports its failure on monitorFailed instead
HttpFailPublished ==
    /\ proc = "running"
    /\ received' = "http"
    /\ proc' = "returned"
    /\ UNCHANGED <<now, pc, due, err, nextTick, tickPending, fb, Interval,
                   env, intBits, offset, nFail, lastOk, rescued, inflight>>

\* server.ListenAndServe() returns and log.Fatal ends the process
HttpFail ==
    /\ proc = "running"
    /\ proc' = "fatal"
    /\ UNCHANGED <<now, pc, due, err, nextTick, tickPending, fb, Interval,
                   env, received, intBits, offset, nFail, lastOk, rescued,
                   inflight>>

\* the process ended in log.Fatal, which logs and calls os.Exit(1); the
\* message of main is written with log.Printf
LoggedFatal == proc = "fatal"

\* os.Exit status of the process
ExitStatus == CASE proc = "returned" -> 0 [] proc = "fatal" -> 1 [] OTHER -> NoTime

(* -------------------------------- time --------------------------------- *)

Blocked(s) == pc[s] \in {"sleep", "startup", "retrieve"}

\* a looper, or main, can take a step without time passing
Urgent ==
    \E s \in Loops :
        \/ pc[s] \in {"start", "send"}
        \/ Blocked(s) /\ due[s] <= now
        \/ CanTakeTick(s)

Deadlines ==
    {due[s] : s \in {x \in Loops : Blocked(x)}}
      \cup {nextTick[s] : s \in {x \in Loops : nextTick[x] # NoTime}}

\* time passes to the next deadline; tickers due then put a tick in their
\* channel (dropped when one is already buffered) and are re-armed
Advance ==
    /\ proc = "running"
    /\ ~Urgent
    /\ Deadlines # {}
    /\ Min(Deadlines) <= Horizon
    /\ now' = Min(Deadlines)
    /\ tickPending' = [s \in Loops |->
                         IF nextTick[s] = Min(Deadlines)
                         THEN Buffered(tickPending[s]) ELSE tickPending[s]]
    /\ nextTick' = [s \in Loops |->
                      IF nextTick[s] = Min(Deadlines)
                      THEN nextTick[s] + Interval[s] ELSE nextTick[s]]
    /\ UNCHANGED <<pc, due, err, fb, Interval, env, received, proc,
                   intBits, offset, nFail, lastOk, rescued, inflight>>

(* --------------------------- specifications ---------------------------- *)

\* the state after main has built the loopers L and started their goroutines,
\* in a build whose ints are bits wide
InitBuild(bits, L, interval, threshold, environment) ==
    /\ intBits = bits
    /\ offset = [s \in L |-> NoTime]
    /\ now = 0
    /\ pc = [s \in L |-> "start"]
    /\ due = [s \in L |-> 0]
    /\ err = [s \in L |-> FALSE]
    /\ nextTick = [s \in L |-> NoTime]
    /\ tickPending = [s \in L |-> 0]
    /\ fb = [s \in L |-> NewFailBox(threshold[s], 0)]
    /\ Interval = interval
    /\ env = environment
    /\ received = NoName
    /\ proc = "running"
    /\ nFail = [s \in L |-> 0]
    /\ lastOk = [s \in L |-> NoTime]
    /\ rescued = [s \in L |-> FALSE]
    /\ inflight = [s \in L |-> 0]

\* the same in a build for a 64-bit target
InitWith(L, interval, threshold, environment) ==
    InitBuild(64, L, interval, threshold, environment)

\* one step of the goroutine of looper s
Go(s) ==
    /\ s \in Loops
    /\ \/ GoStart(s)
       \/ StartupTick(s)
       \/ StartupReturn(s)
       \/ Tick(s)
       \/ TickReturn(s)

Next ==
    \/ \E s \in Loops : GoStart(s)
    \/ \E s \in Loops : StartupTick(s)
    \/ \E s \in Loops : StartupReturn(s)
    \/ \E s \in Loops : Tick(s)
    \/ \E s \in Loops : TickReturn(s)
    \/ MainRecv
    \/ HttpFail
    \/ Advance

\* main as written, one looper at a time (loopers share nothing but the
\* channel); the remote service may fail any poll, the server may die
InitMain ==
    \E m \in MainMonitors :
        InitWith({m}, [s \in {m} |-> MainInterval(m)],
                 [s \in {m} |-> failAfter], [s \in {m} |-> "any"])

SpecMain == InitMain /\ [][Next]_vars

\* two loopers with a 5 s threshold: A polls every second, B every 7 s
ScenarioLoops == {"A", "B"}

ScenarioInterval == [s \in ScenarioLoops |-> IF s = "A" THEN 1 ELSE 7]

ScenarioThreshold == [s \in ScenarioLoops |-> 5 * Second]

InitScenario ==
    InitWith(ScenarioLoops, ScenarioInterval, ScenarioThreshold,
             [s \in ScenarioLoops |-> "any"])

Spec == InitScenario /\ [][Next]_vars

\* looper A of the scenario alone, in a build for any target
InitAnyBuild ==
    \E bits \in IntWidths :
        InitBuild(bits, {"A"}, [s \in {"A"} |-> ScenarioInterval[s]],
                  [s \in {"A"} |-> ScenarioThreshold[s]],
                  [s \in {"A"} |-> "any"])

SpecAnyBuild == InitAnyBuild /\ [][Next]_vars

\* the Go scheduler runs every runnable goroutine, and time passes
Fairness(L) ==
    /\ WF_vars(Advance)
    /\ WF_vars(MainRecv)
    /\ \A s \in L :
          WF_vars(Go(s))

\* the HTTP server stays up
NextUp ==
    \/ \E s \in Loops : GoStart(s)
    \/ \E s \in Loops : StartupTick(s)
    \/ \E s \in Loops : StartupReturn(s)
    \/ \E s \in Loops : Tick(s)
    \/ \E s \in Loops : TickReturn(s)
    \/ MainRecv
    \/ Advance

\* the scenario with B healthy on every poll and the server up
InitFair ==
    InitWith(ScenarioLoops, ScenarioInterval, ScenarioThreshold,
             [s \in ScenarioLoops |-> IF s = "A" THEN "any" ELSE "ok"])

FairSpec == InitFair /\ [][NextUp]_vars /\ Fairness(ScenarioLoops)

\* one looper of each configuration main uses (ThroughputMonitor and
\* ActiveTasksMonitor are configured as ReplicationProgressMonitor is)
MainKinds == {"ReplicationProgressMonitor", "ReplicationStatusMonitor"}

InitMainKinds ==
    \E m \in MainKinds :
        InitWith({m}, [s \in {m} |-> MainInterval(m)],
                 [s \in {m} |-> failAfter], [s \in {m} |-> "any"])

\* main's configurations one at a time, with the server up
FairSpecMain == InitMainKinds /\ [][NextUp]_vars /\ Fairness(MainKinds)

\* two of main's loopers: SrcA fails on every poll, the other succeeds on
\* every poll
SrcA == "ReplicationProgressMonitor"

HealthyPeers == {"ReplicationStatusMonitor", "ThroughputMonitor"}

InitC ==
    \E b \in HealthyPeers :
        InitWith({SrcA, b}, [s \in {SrcA, b} |-> MainInterval(s)],
                 [s \in {SrcA, b} |-> failAfter],
                 [s \in {SrcA, b} |-> IF s = SrcA THEN "fail" ELSE "ok"])

FairSpecC == InitC /\ [][NextUp]_vars /\ Fairness({SrcA} \cup HealthyPeers)

(* ------------------------------ properties ----------------------------- *)

\* looper s is past its threshold: more than failAfter since its last
\* success, or since the window was created if it never succeeded
Over(s) == ShouldExit(fb[s], now)

\* this step is the return of a periodic Retrieve of looper s
TickReturns(s) == pc[s] = "retrieve" /\ pc'[s] # "retrieve"

\* this step is the return of any Retrieve of looper s, startup included
PollReturns(s) == pc[s] \in {"startup", "retrieve"} /\ pc'[s] # pc[s]

\* C1 as stated: once a source is past its threshold it never goes on to a
\* later successful poll (the process is ended first).
C1_NoSuccessOnceOver ==
    [][\A s \in Loops : Over(s) => fb'[s].lastSuccess = fb[s].lastSuccess]_vars

\* C1 amended: the threshold is looked at only after a periodic poll.  A
\* periodic poll makes the looper exit exactly when it failed and the source
\* is then past its threshold, and an exited looper always leads to the end
\* of the process.
C1_ExitOnFailedTickOver ==
    /\ [][\A s \in Loops :
            TickReturns(s) => (pc'[s] = "send" <=> (err'[s] /\ Over(s)))]_vars
    /\ (\E s \in Loops : pc[s] = "send") ~> (proc # "running")

\* C1 witness: a looper exited on a failed periodic poll and the process ended
C1_Witness ==
    /\ proc = "returned"
    /\ \E s \in Loops : pc[s] = "sent" /\ err[s] /\ Over(s) /\ nFail[s] = 2

\* C2 as stated: whenever the process has terminated, some source is past
\* its threshold.
C2_TerminatedOnlyWhenOver ==
    proc # "running" => \E s \in Loops : Over(s)

\* C2 amended: when the process has terminated by main returning, the source
\* main received is an exited looper past its threshold; the only other way
\* the process ends is the HTTP server goroutine's log.Fatal, and then main
\* has received nothing.
C2_ReturnedOnlyWhenOver ==
    /\ proc = "returned" =>
          /\ received \in Loops
          /\ pc[received] = "sent"
          /\ Over(received)
    /\ proc # "returned" => received = NoName
    /\ proc \in {"running", "returned", "fatal"}

\* C2 witness: main returned on A's name while B is within its threshold
C2_Witness ==
    /\ proc = "returned"
    /\ received = "A"
    /\ ~Over("B")
    /\ pc["B"] \in Polling

\* C3: A fails on every poll and its peer succeeds on every poll: main
\* eventually receives a name, the only name it ever receives is A's, and
\* when the process ends the peer's looper is still polling.
C3_OnlyAReported ==
    /\ <>(received # NoName)
    /\ [](received \in {NoName, SrcA})
    /\ [](proc = "returned" => \A b \in Loops \ {SrcA} : pc[b] \in Polling)

\* C3 witness: the process ended on A's name with a healthy peer polling
C3_Witness ==
    /\ proc = "returned"
    /\ received = SrcA
    /\ \E b \in Loops \ {SrcA} :
          pc[b] \in Polling /\ nFail[b] = 0 /\ lastOk[b] # NoTime

\* C4: a looper none of whose retrievals failed has not exited, whatever its
\* interval; and while no retrieval of any looper has failed, nothing was
\* sent on or received from the channel.
C4_NoExitWithoutFailure ==
    /\ \A s \in Loops : nFail[s] = 0 => pc[s] \notin Exited
    /\ (\A s \in Loops : nFail[s] = 0) =>
          received = NoName /\ proc # "returned"

\* C4 witness: B, whose interval is longer than its threshold, has had a
\* successful periodic poll and no failure
C4_Witness ==
    /\ Interval["B"] > fb["B"].failAfter
    /\ nFail["B"] = 0
    /\ pc["B"] = "wait"
    /\ lastOk["B"] >= JitterN + MaxRetrieve
    /\ nFail["A"] = 0
    /\ lastOk["A"] # NoTime

\* C5 as stated: for every looper of main, a single failed retrieval with a
\* success before it does not make the looper exit.
C5_IsolatedFailureSurvives ==
    \A s \in Loops : pc[s] \in Exited => ~(nFail[s] = 1 /\ lastOk[s] # NoTime)

\* C6: at every instant ShouldExit is true iff more than the threshold has
\* passed since the last successful retrieval (since creation if there was
\* none), and once true it stays true until the next success is recorded.
C6_ShouldExitIffElapsed ==
    /\ [](\A s \in Loops :
            ShouldExit(fb[s], now) <=>
              now - (IF lastOk[s] = NoTime THEN 0 ELSE lastOk[s])
                > fb[s].failAfter)
    /\ [][\A s \in Loops :
            (ShouldExit(fb[s], now) /\ lastOk'[s] = lastOk[s])
              => ShouldExit(fb'[s], now')]_vars

\* C6 witness: a source that never succeeded is reported, and one that
\* succeeded once is reported later
C6_Witness ==
    /\ lastOk["A"] = NoTime
    /\ nFail["A"] >= 1
    /\ ShouldExit(fb["A"], now)
    /\ lastOk["B"] # NoTime
    /\ ShouldExit(fb["B"], now)

\* C7: a periodic poll whose retrieval succeeded leaves ShouldExit false and
\* the looper waiting for the next tick, whatever came before.
C7_SuccessResets ==
    [][\A s \in Loops :
         (TickReturns(s) /\ ~err'[s]) =>
            (~ShouldExit(fb'[s], now') /\ pc'[s] = "wait")]_vars

\* C7 witness: after several failures, a success that came when ShouldExit
\* was already true, and the looper is waiting for its next tick
C7_Witness ==
    /\ rescued["A"]
    /\ nFail["A"] = 2
    /\ ~err["A"]
    /\ pc["A"] = "wait"
    /\ lastOk["A"] = now
    /\ nextTick["A"] # NoTime /\ lastOk["A"] >= nextTick["A"] - Interval["A"]

\* C8 as stated: after every poll, the startup tick included, the looper
\* has exited iff the time since the last success (or creation) is then past
\* the threshold.
C8_ExitOnFirstTickOver ==
    [][\A s \in Loops :
         PollReturns(s) => (pc'[s] = "send" <=> ShouldExit(fb'[s], now'))]_vars

\* C9: a looper has at most one Retrieve outstanding, and it has one exactly
\* while it is inside a poll.
C9_OneRetrieveAtATime ==
    \A s \in Loops :
        /\ inflight[s] <= 1
        /\ inflight[s] = 1 <=> pc[s] \in {"startup", "retrieve"}

\* C9 witness: a tick is buffered while a retrieval is outstanding, and the
\* ticker fires again before that retrieval returns
C9_Witness ==
    /\ pc["A"] = "retrieve"
    /\ tickPending["A"] > 0
    /\ due["A"] >= nextTick["A"]
    /\ inflight["A"] = 1

Draws(s) == pc[s] = "start" /\ pc'[s] = "sleep"

\* the step of looper s that ends the sleep and calls the startup Retrieve
StartupCalled(s) == pc[s] = "sleep" /\ pc'[s] = "startup"

C12_NonZeroExitOnMonitorFailure ==
    (proc # "running" /\ received # NoName) => (ExitStatus # 0 \/ LoggedFatal)

(* ------------------------------- C13 ----------------------------------- *)

\* the step in which the startup Retrieve of looper s returns and its result
\* is recorded
StartupReturns(s) == pc[s] = "startup" /\ pc'[s] # "startup"

\* C13: the startup poll is evaluated like a periodic tick: when the startup
\* Retrieve has failed and the threshold is already exceeded since the
\* creation of the FailBox, the looper goes to Exited at once, before it
\* waits for any tick of the ticker
C13_StartupPollEvaluated ==
    [][\A s \in Loops :
          (StartupReturns(s) /\ err'[s] /\ ShouldExit(fb'[s], now'))
              => pc'[s] \in Exited]_vars

(* ------------------------------- C14 ----------------------------------- *)

\* the step in which a name is published on monitorFailed and received
Publishes == received' # received

\* C14: for each of main's four monitors, a name is published only by the
\* goroutine of a looper whose Go() has returned (the loop is in Exited before
\* the step), the name is that of the monitor this looper polls, and so the
\* name main holds is always that of an exited looper whose last poll failed
\* with ShouldExit true
C14_PublishedNameIsExitedLoop ==
    /\ [][Publishes =>
            /\ received = NoName
            /\ received' \in Loops
            /\ pc[received'] = "send"
            /\ pc'[received'] = "sent"]_vars
    /\ [](\A s \in Loops : pc[s] \in Exited => (err[s] /\ Over(s)))
    /\ [](received # NoName =>
            /\ received \in Loops \cap MainMonitors
            /\ pc[received] \in Exited)

\* main holds the name of one of its monitors, whose loop has exited
C14_Witness ==
    /\ received \in MainMonitors
    /\ received \in Loops
    /\ pc[received] = "sent"
    /\ Over(received)
    /\ inflight[received] = 0

(* ------------------------------- C15 ----------------------------------- *)

\* loopers whose name main has taken from monitorFailed
Delivered == {s \in Loops : pc[s] = "sent"}

\* loopers whose goroutine is blocked in its send on monitorFailed
BlockedSenders == {s \in Loops : pc[s] = "send"}

\* C15: however many loopers exit, main receives exactly one name; once the
\* process has ended every other exited looper stays blocked in its send
\* for good, and a looper that has exited polls no more and changes nothing
\* of its own state
C15_ExactlyOneReceive ==
    /\ [](Cardinality(Delivered) <= 1)
    /\ [](proc = "returned" <=> Cardinality(Delivered) = 1)
    /\ [][received # NoName => received' = received]_vars
    /\ [][\A s \in Loops :
            pc[s] \in Exited =>
               /\ pc'[s] \in Exited
               /\ (proc # "running" => pc'[s] = pc[s])
               /\ fb'[s] = fb[s]
               /\ err'[s] = err[s]
               /\ inflight[s] = 0 /\ inflight'[s] = 0]_vars

\* both loopers have exited: main returned on the name of A, and B is left
\* blocked in its send
C15_Witness ==
    /\ proc = "returned"
    /\ Delivered = {"A"}
    /\ BlockedSenders = {"B"}
    /\ received = "A"

(* ------------------------------- C16 ----------------------------------- *)

\* C16: the last-success time of a FailBox never decreases; it changes only
\* in the step in which a Retrieve of its looper returns without error, and
\* then to the time of that step; a failed poll leaves the FailBox as it was;
\* once set it is never unset
C16_LastSuccessMonotonic ==
    [][\A s \in Loops :
          /\ fb'[s].lastSuccess >= fb[s].lastSuccess
          /\ fb'[s].lastSuccess # fb[s].lastSuccess =>
                (PollReturns(s) /\ ~err'[s] /\ fb'[s].lastSuccess = now')
          /\ (PollReturns(s) /\ err'[s]) => fb'[s] = fb[s]
          /\ fb[s].lastSuccess # NoTime => fb'[s].lastSuccess # NoTime]_vars

\* A has just failed a periodic poll after an earlier success, and its
\* FailBox still holds the time of that success
C16_Witness ==
    /\ pc["A"] = "wait"
    /\ err["A"]
    /\ nFail["A"] >= 1
    /\ fb["A"].lastSuccess # NoTime
    /\ fb["A"].lastSuccess < now
    /\ fb["A"].lastSuccess > fb["A"].created

(* ------------------------------- C17 ----------------------------------- *)

\* a step of the goroutine of looper s: something of this looper changes
\* while main receives nothing and no time passes
StepOf(s) ==
    /\ now' = now
    /\ received' = received
    /\ \/ pc'[s] # pc[s]
       \/ fb'[s] # fb[s]
       \/ err'[s] # err[s]
       \/ due'[s] # due[s]

\* C17: the loopers are independent: a step of one looper leaves the FailBox
\* and the loop state of every other looper unchanged, and a looper reaches
\* Exited only in a step of its own, with ShouldExit true of its own FailBox
C17_LoopersIndependent ==
    /\ [][\A s \in Loops :
            StepOf(s) =>
               \A t \in Loops \ {s} :
                  /\ fb'[t] = fb[t]
                  /\ pc'[t] = pc[t]
                  /\ err'[t] = err[t]
                  /\ due'[t] = due[t]
                  /\ nextTick'[t] = nextTick[t]
                  /\ tickPending'[t] = tickPending[t]]_vars
    /\ [][\A s \in Loops :
            (pc[s] \notin Exited /\ pc'[s] \in Exited) =>
               (StepOf(s) /\ err'[s] /\ ShouldExit(fb'[s], now'))]_vars

\* A has exited on its own FailBox while B, which has just recorded a
\* success in its own, polls on
C17_Witness ==
    /\ proc = "running"
    /\ pc["A"] = "send"
    /\ Over("A")
    /\ pc["B"] = "wait"
    /\ fb["B"].lastSuccess = now
    /\ fb["A"].lastSuccess # fb["B"].lastSuccess

(* ------------------------------- C18 ----------------------------------- *)

\* the ticker of looper s exists
Ticking(s) == nextTick[s] # NoTime

\* C18: the ticker of a looper is created when its startup poll has been
\* recorded, with its first tick one Interval later; from then on it fires
\* exactly at the instants creation + k * Interval: its next firing moves
\* only when time reaches it, and then by one Interval, whatever the looper
\* is doing and however long its Retrieve takes; a firing puts a tick in the
\* channel only if none is there, so that at most one tick is ever pending
C18_TicksOnFixedGrid ==
    /\ [][\A s \in Loops :
            /\ StartupReturns(s) =>
                  /\ ~Ticking(s)
                  /\ nextTick'[s] = now' + Interval[s]
                  /\ tickPending'[s] = 0
            /\ Ticking(s) =>
                  \/ /\ nextTick'[s] = nextTick[s]
                     /\ tickPending'[s] <= tickPending[s]
                  \/ /\ nextTick'[s] = nextTick[s] + Interval[s]
                     /\ now' = nextTick[s]
                     /\ tickPending'[s] = Max({tickPending[s], 1})]_vars
    /\ [](\A s \in Loops :
            /\ tickPending[s] \in 0 .. 1
            /\ Ticking(s) =>
                  (now < nextTick[s] /\ nextTick[s] <= now + Interval[s])
            /\ ~Ticking(s) => tickPending[s] = 0)

\* the first periodic Retrieve of A, called one Interval after the startup
\* poll succeeded, is still outstanding two Intervals later: the ticker has
\* fired twice meanwhile and one tick is pending
C18_Witness ==
    /\ pc["A"] = "retrieve"
    /\ nFail["A"] = 0
    /\ lastOk["A"] # NoTime
    /\ now = lastOk["A"] + 3 * Interval["A"]
    /\ tickPending["A"] = 1
    /\ nextTick["A"] = now + Interval["A"]

(* ------------------------------- C19 ----------------------------------- *)

\* the time.Duration looper s passes to time.Sleep, in units of 512 ns
Slept(s) == SleepDuration(offset[s], intBits)

\* C19: for every offset 0 .. 14 a looper draws, the duration it sleeps for
\* is not negative and is exactly offset seconds (the int product does not
\* wrap around), and its startup Retrieve is not called before offset
\* seconds have passed since Go() was called
C19_SleepIsOffsetSeconds ==
    /\ [](\A s \in Loops :
            pc[s] = "sleep" =>
               /\ offset[s] \in Offsets
               /\ Slept(s) >= 0
               /\ Slept(s) = offset[s] * SecondUnits
               /\ due[s] = fb[s].created + offset[s] * Second)
    /\ [][\A s \in Loops :
            StartupCalled(s) =>
               now' >= fb[s].created + offset[s] * Second]_vars

(* ------------------------------- C20 ----------------------------------- *)

\* the step in which the process ends in the log.Fatal of the server goroutine
ServerEnds == proc' = "fatal" /\ proc # "fatal"

\* C20: the HTTP server goroutine can end the process at any time while it
\* runs, whatever the monitors are doing and also while every looper is
\* within its threshold; it does so by log.Fatal, with nothing sent on or
\* received from monitorFailed; and it never makes a looper exit or a name be
\* published: its step changes nothing of any looper
C20_ServerEndsProcessAlone ==
    /\ [](proc = "running" => ENABLED (Next /\ ServerEnds))
    /\ [][ServerEnds =>
            /\ proc = "running"
            /\ received = NoName /\ received' = NoName
            /\ pc' = pc /\ fb' = fb /\ err' = err /\ inflight' = inflight
            /\ now' = now]_vars
    /\ [](proc = "fatal" =>
            /\ received = NoName
            /\ ExitStatus = 1
            /\ \A s \in Loops : pc[s] # "sent")
    /\ [][\A s \in Loops :
            (pc[s] \notin Exited /\ pc'[s] \in Exited) => proc' = "running"]_vars
    /\ [](received \in Loops \cup {NoName})

\* log.Fatal has ended the process while both loopers were polling, within
\* their thresholds, after successful polls
C20_Witness ==
    /\ proc = "fatal"
    /\ now > 0
    /\ \A s \in Loops :
          pc[s] \in Polling /\ ~Over(s) /\ nFail[s] = 0 /\ lastOk[s] # NoTime

=============================================================================
